---- MODULE Spec2Model ----
(***************************************************************************)
(* Bit-banged touch controller driver (Core/Src/ILI9341_Touchscreen.c).    *)
(*                                                                         *)
(* The program counter pc is named after the source line it stands at:     *)
(* "L116" is the loop test of TP_Read_Coordinates, "W94" the first clock   *)
(* write of a TP_Write bit, "R70" the data-in read of a TP_Read bit.       *)
(* Every HAL_GPIO_WritePin and HAL_GPIO_ReadPin is a step of its own, so   *)
(* the press line may change between any two pin accesses.  Computation on *)
(* locals is folded into a neighbouring pin access or call.                *)
(***************************************************************************)
EXTENDS Integers, Sequences, FiniteSets, TLC

\* ---------------------------------------------------------------- bounds

\* Largest configured NO_OF_POSITION_SAMPLES explored.
MaxSamples == 2

\* Conversion results the simulated controller may shift out for each axis:
\* the smallest two for Y, the largest two for X.
RawValues == [Y |-> {0, 1}, X |-> {65534, 65535}]

\* Largest configured NO_OF_POSITION_SAMPLES of the runs that follow the
\* sums alone, and the conversion results the controller repeats in them.
MaxBudget == 65537
WorstResponses == {65534, 65535}

\* Contents the caller's output array may hold before the first call.
InitialCoordinates == {<<0, 0>>, <<7, 9>>}

\* Calibration constants of the header: translation, offset, magnitude.
Calibrations ==
  { [xt |-> 1,  yt |-> 1,  xo |-> 13, yo |-> 15, xm |-> 1, ym |-> 1],
    [xt |-> 16, yt |-> 16, xo |-> 13, yo |-> 15, xm |-> 2, ym |-> 2] }

\* ------------------------------------------------------ program constants

GPIO_PIN_RESET == 0
GPIO_PIN_SET == 1

\* Command bytes of the controller (header).
CMD_RDY == 144
CMD_RDX == 208

TOUCHPAD_DATA_OK == "Ok"
TOUCHPAD_DATA_NOISY == "Noisy"
TOUCHPAD_PRESSED == 1
TOUCHPAD_NOT_PRESSED == 0

\* A pin level not read so far in the current operation.
NotRead == 0 - 1

U8 == 256
U16 == 65536

VARIABLES
  \* output pins
  clk, mosi, cs,
  \* input pins: press line (low = pressed) and data-in
  irq, miso,
  \* configuration, fixed for a run
  NO_OF_POSITION_SAMPLES, cal,
  \* control
  pc, axis,
  \* TP_Write / TP_Read locals
  i, wvalue, value,
  \* TP_Read_Coordinates locals
  avg_x, avg_y, rawx, rawy, calculating_x, calculating_y,
  samples, counted_samples,
  \* results: the output array and the values the last operations returned
  Coordinates, ret, pressed,
  \* simulated controller: shift register of the response being sent
  shreg,
  \* observation of the current operation (entryPins: the output pins at
  \* the entry of TP_Touchpad_Pressed)
  lastOp, log, entryCoords, entryPins, sameCtrl, prevLog,
  irqReads, firstCheck, loopReadHigh, valRead, csAtVal, pressRead,
  irqHighSeen, irqHighHeld,
  cmdWrites, respReads, clkRises, clkFalls,
  \* the pin accesses made since the running operation, or its latest
  \* TP_Write or TP_Read, was entered; the data-out levels at the first
  \* falling clock edges the selected controller saw
  trace, latched

outs == <<clk, mosi, cs>>
ins == <<irq, miso>>
cfg == <<NO_OF_POSITION_SAMPLES, cal>>
xfer == <<i, wvalue, value>>
accs == <<avg_x, avg_y, rawx, rawy, calculating_x, calculating_y,
          samples, counted_samples>>
res == <<Coordinates, ret, pressed>>
ctrl == <<shreg, log, sameCtrl, prevLog>>
entry == <<lastOp, entryCoords, entryPins>>
reads == <<irqReads, firstCheck, loopReadHigh, valRead, csAtVal, pressRead>>
flags == <<irqHighSeen, irqHighHeld>>
counts == <<cmdWrites, respReads>>
edges == <<clkRises, clkFalls, latched>>

vars == <<outs, ins, cfg, pc, axis, xfer, accs, res, ctrl, entry, reads,
          flags, counts, edges, trace>>

X_TRANSLATION == cal.xt
Y_TRANSLATION == cal.yt
X_OFFSET == cal.xo
Y_OFFSET == cal.yo
X_MAGNITUDE == cal.xm
Y_MAGNITUDE == cal.ym

\* ---------------------------------------------------------------- helpers

\* A uint32_t is the pair <<high half, low half>> of 16-bit halves.
Zero32 == <<0, 0>>

\* Bit k of w.
Bit(w, k) == (w \div (2 ^ k)) % 2

\* Program labels inside the sampling loop body (lines 117..128).
LoopBody == {"L117", "L118", "L119", "L122", "L123", "L124",
             "W84", "W87", "W94", "W95", "R65", "R68", "R70"}

\* Labels of TP_Read_Coordinates.
RCLabels == LoopBody \cup {"L103", "L104", "L105", "L107", "L114", "L116",
                           "L131", "L133", "L136", "L151"}

InRC == pc \in RCLabels

\* Cycles completed so far in the running call (the locals are not yet
\* initialised before line 112).
Completed ==
  IF pc \in {"L103", "L104", "L105", "L107"} THEN 0 ELSE counted_samples

\* The press line can still be seen by a later loop test of this call, or
\* a sample cycle is under way.
InSampling ==
  \/ pc \in LoopBody
  \/ pc = "L116" /\ counted_samples > 0 /\ samples > 0

\* A pin access is recorded.
Access(pin, level) == trace' = Append(trace, <<pin, level>>)

\* Bits a controller latches for one command.
CommandBits == 8

\* HAL_GPIO_WritePin(TP_CLK_PORT, TP_CLK_PIN, level), with the edges seen
\* by the controller while it is selected and the data-out level at the
\* falling edges that would latch the first command.
WriteClk(level) ==
  /\ clk' = level
  /\ Access("CLK", level)
  /\ clkRises' = clkRises + (IF cs = 0 /\ clk = 0 /\ level = 1 THEN 1 ELSE 0)
  /\ clkFalls' = clkFalls + (IF cs = 0 /\ clk = 1 /\ level = 0 THEN 1 ELSE 0)
  /\ latched' = IF cs = 0 /\ clk = 1 /\ level = 0 /\ Len(latched) < CommandBits
                THEN Append(latched, mosi)
                ELSE latched

\* ------------------------------------------------------------------- Init

\* Before the first call: the pins at any level, the output array with any
\* of the contents above, no operation started.
Init ==
  /\ clk \in {0, 1} /\ mosi \in {0, 1} /\ cs \in {0, 1}
  /\ irq \in {0, 1} /\ miso \in {0, 1}
  /\ NO_OF_POSITION_SAMPLES \in 1..MaxSamples
  /\ cal \in Calibrations
  /\ pc = "idle" /\ axis = "Y"
  /\ i = 0 /\ wvalue = 0 /\ value = 0
  /\ avg_x = Zero32 /\ avg_y = Zero32 /\ rawx = 0 /\ rawy = 0
  /\ calculating_x = Zero32 /\ calculating_y = Zero32
  /\ samples = 0 /\ counted_samples = 0
  /\ Coordinates \in InitialCoordinates
  /\ ret = "none" /\ pressed = TOUCHPAD_NOT_PRESSED
  /\ shreg = 0
  /\ lastOp = "none" /\ log = <<>> /\ entryCoords = Coordinates
  /\ entryPins = <<>>
  /\ sameCtrl = FALSE /\ prevLog = <<>>
  /\ irqReads = 0 /\ firstCheck = NotRead /\ loopReadHigh = FALSE
  /\ valRead = NotRead
  /\ csAtVal = NotRead /\ pressRead = NotRead
  /\ irqHighSeen = FALSE /\ irqHighHeld = FALSE
  /\ cmdWrites = 0 /\ respReads = 0 /\ clkRises = 0 /\ clkFalls = 0
  /\ trace = <<>> /\ latched = <<>>

\* ------------------------------------------------------------ environment

\* The press line changes level.
EnvIrq ==
  /\ irq' = 1 - irq
  /\ irqHighSeen' = (irqHighSeen \/ (InSampling /\ irq' = 1))
  /\ irqHighHeld' =
       IF InRC
       THEN irq' = 1 /\ Completed < NO_OF_POSITION_SAMPLES
       ELSE irqHighHeld
  /\ UNCHANGED <<outs, miso, cfg, pc, axis, xfer, accs, res, ctrl, entry,
                 reads, counts, edges, trace>>

\* ----------------------------------------------------- TP_Touchpad_Pressed

\* The caller enters TP_Touchpad_Pressed.
CallTouchpadPressed ==
  /\ pc = "idle"
  /\ pc' = "L159"
  /\ lastOp' = "TP_Touchpad_Pressed"
  /\ entryPins' = <<clk, mosi, cs>>
  /\ irqReads' = 0 /\ pressRead' = NotRead
  /\ trace' = <<>>
  /\ UNCHANGED <<outs, ins, cfg, axis, xfer, accs, res, ctrl, entryCoords,
                 firstCheck, loopReadHigh, valRead, csAtVal, flags, counts,
                 edges>>

\* Variant of PressedStatus with the polarity of the press line inverted.
PressedStatus_Inverted(level) ==
  IF level # 0 THEN TOUCHPAD_PRESSED ELSE TOUCHPAD_NOT_PRESSED

\* Lines 159..163 with the level read from the press line.
PressedStatus(level) ==
  IF level = 0 THEN TOUCHPAD_PRESSED ELSE TOUCHPAD_NOT_PRESSED

\* Lines 158..164.
TP_Touchpad_Pressed ==
  /\ pc = "L159"
  /\ pressed' = PressedStatus(irq)
  /\ irqReads' = irqReads + 1 /\ pressRead' = irq
  /\ Access("IRQ", irq)
  /\ pc' = "idle"
  /\ UNCHANGED <<outs, ins, cfg, axis, xfer, accs, Coordinates, ret, ctrl,
                 entry, firstCheck, loopReadHigh, valRead, csAtVal, flags,
                 counts, edges>>

\* ----------------------------------------------------- simulated controller

\* The controller starts sending the conversion result w: it is logged, and
\* the call stops counting as a replay of the previous one when w differs
\* from the response the previous call got at the same place.
Respond(w) ==
  /\ shreg' = w
  /\ log' = Append(log, w)
  /\ IF sameCtrl /\ Len(log) < Len(prevLog) /\ prevLog[Len(log) + 1] = w
     THEN UNCHANGED <<sameCtrl, prevLog>>
     ELSE sameCtrl' = FALSE /\ prevLog' = <<>>

\* ---------------------------------------------------------------- TP_Write

AfterWrite == IF axis = "Y" THEN "L118" ELSE "L123"

\* while (i > 0) of TP_Write with the counter at n.
WriteLoop(n) == IF n > 0 THEN "W87" ELSE AfterWrite

\* Entry of TP_Write(byte): uint8_t i = 0x08.
EnterWrite(byte) ==
  /\ wvalue' = byte
  /\ i' = 8
  /\ pc' = "W84"
  /\ cmdWrites' = cmdWrites + 1
  /\ trace' = <<>>

\* Line 84: clock forced low before the first bit.
TP_Write_ClkLow ==
  /\ pc = "W84"
  /\ WriteClk(GPIO_PIN_RESET)
  /\ pc' = WriteLoop(i)
  /\ UNCHANGED <<mosi, cs, ins, cfg, axis, xfer, accs, res, ctrl, entry,
                 reads, flags, counts>>

\* Variant of TP_Write_Data that sends the least significant bit first.
TP_Write_Data_LsbFirst ==
  /\ pc = "W87"
  /\ mosi' = IF Bit(wvalue, 0) # 0 THEN GPIO_PIN_SET ELSE GPIO_PIN_RESET
  /\ Access("MOSI", mosi')
  /\ wvalue' = wvalue \div 2
  /\ pc' = "W94"
  /\ UNCHANGED <<clk, cs, ins, cfg, axis, i, value, accs, res, ctrl, entry,
                 reads, flags, counts, edges>>

\* Lines 87..93: data-out takes bit 7 of the byte, the byte shifts left.
TP_Write_Data ==
  /\ pc = "W87"
  /\ mosi' = IF Bit(wvalue, 7) # 0 THEN GPIO_PIN_SET ELSE GPIO_PIN_RESET
  /\ Access("MOSI", mosi')
  /\ wvalue' = (wvalue * 2) % U8
  /\ pc' = "W94"
  /\ UNCHANGED <<clk, cs, ins, cfg, axis, i, value, accs, res, ctrl, entry,
                 reads, flags, counts, edges>>

\* Line 94.
TP_Write_ClkHigh ==
  /\ pc = "W94"
  /\ WriteClk(GPIO_PIN_SET)
  /\ pc' = "W95"
  /\ UNCHANGED <<mosi, cs, ins, cfg, axis, xfer, accs, res, ctrl, entry,
                 reads, flags, counts>>

\* Lines 95..97 and the loop test.
TP_Write_ClkFall ==
  /\ pc = "W95"
  /\ WriteClk(GPIO_PIN_RESET)
  /\ i' = i - 1
  /\ pc' = WriteLoop(i')
  /\ UNCHANGED <<mosi, cs, ins, cfg, axis, wvalue, value, accs, res, ctrl,
                 entry, reads, flags, counts>>

\* ----------------------------------------------------------------- TP_Read

\* Variant of AfterRead that leaves the loop when the press line is high
\* after a response.
AfterRead_AbortOnRelease ==
  IF irq = 1 THEN "L131" ELSE IF axis = "Y" THEN "L119" ELSE "L124"

AfterRead == IF axis = "Y" THEN "L119" ELSE "L124"

\* while (i > 0x00) of TP_Read with the counter at n.
ReadLoop(n) == IF n > 0 THEN "R65" ELSE AfterRead

\* Variant of ShiftLeft16 for an accumulator declared uint8_t.
ShiftLeft16_AsByte(v) == (v * 2) % U8

\* value <<= 1 on a uint16_t.
ShiftLeft16(v) == (v * 2) % U16

\* if (ReadPin(MISO) != 0) value++.
SampleBit(v, level) == IF level # 0 THEN (v + 1) % U16 ELSE v

\* Entry of TP_Read: uint8_t i = 16, value = 0; the controller has a
\* conversion result ready.
EnterRead ==
  /\ i' = 16
  /\ value' = 0
  /\ pc' = ReadLoop(i')
  /\ respReads' = respReads + 1
  /\ trace' = <<>>
  /\ \E w \in RawValues[axis] : Respond(w)

\* Lines 65..67.
TP_Read_ClkHigh ==
  /\ pc = "R65"
  /\ value' = ShiftLeft16(value)
  /\ WriteClk(GPIO_PIN_SET)
  /\ pc' = "R68"
  /\ UNCHANGED <<mosi, cs, ins, cfg, axis, i, wvalue, accs, res, ctrl, entry,
                 reads, flags, counts>>

\* Line 68: on the falling edge the selected controller puts the next bit,
\* most significant first, on data-in.
TP_Read_ClkFall ==
  /\ pc = "R68"
  /\ WriteClk(GPIO_PIN_RESET)
  /\ IF cs = 0 /\ clk = 1
     THEN miso' = Bit(shreg, 15) /\ shreg' = (shreg * 2) % U16
     ELSE UNCHANGED <<miso, shreg>>
  /\ pc' = "R70"
  /\ UNCHANGED <<mosi, cs, irq, cfg, axis, xfer, accs, res, log, sameCtrl,
                 prevLog, entry, reads, flags, counts>>

\* Lines 70..74 and the loop test.
TP_Read_Sample ==
  /\ pc = "R70"
  /\ value' = SampleBit(value, miso)
  /\ Access("MISO", miso)
  /\ i' = i - 1
  /\ pc' = ReadLoop(i')
  /\ UNCHANGED <<outs, ins, cfg, axis, wvalue, accs, res, ctrl, entry, reads,
                 flags, counts, edges>>

\* ----------------------------------------------------- TP_Read_Coordinates

\* Variant of Accumulate for sums declared uint16_t.
Accumulate_Narrow(sum, sample) == <<0, (sum[2] + sample) % U16>>

\* uint32_t sum += uint16_t sample, modulo 2^32.
Accumulate(sum, sample) ==
  LET lo == sum[2] + sample
  IN  <<(sum[1] + (lo \div U16)) % U16, lo % U16>>

\* Variant of Divide32 that rounds to the nearest integer.
Divide32_Rounding(sum, count) ==
  LET lo == sum[2] + (count \div 2)
      hi == (sum[1] + (lo \div U16)) % U16
  IN  <<hi \div count, (((hi % count) * U16) + (lo % U16)) \div count>>

\* uint32_t sum /= count, by long division on the four bytes of the sum,
\* which keeps every intermediate value below 2^31 (count < 2^23).
Divide32(sum, count) ==
  LET c3 == sum[1] \div U8
      c2 == ((c3 % count) * U8) + (sum[1] % U8)
      c1 == ((c2 % count) * U8) + (sum[2] \div U8)
      c0 == ((c1 % count) * U8) + (sum[2] % U8)
  IN  <<((c3 \div count) * U8) + (c2 \div count),
        ((c1 \div count) * U8) + (c0 \div count)>>

\* Variant of LoopContinues that never looks at the press line.
LoopContinues_BudgetOnly(budget, level) == budget > 0

\* Variant of LoopContinues that never looks at the budget.
LoopContinues_LevelOnly(budget, level) == level = 0

\* Variant of LoopContinues that runs the first cycle unconditionally, as a
\* do-while loop would.
LoopContinues_FirstUnchecked(budget, level) ==
  budget > 0 /\ (level = 0 \/ budget = NO_OF_POSITION_SAMPLES)

\* Loop condition of line 116 with the budget left and the press line level
\* (the level is read only when the budget is not exhausted).
LoopContinues(budget, level) == budget > 0 /\ level = 0

\* Variant of ValidationPasses without the count.
ValidationPasses_LevelOnly(count, level) == level = 0

\* Variant of ValidationPasses without the press line.
ValidationPasses_CountOnly(count, level) == count = NO_OF_POSITION_SAMPLES

\* Variant of ValidationPasses that compares the count with <=.
ValidationPasses_AtMost(count, level) ==
  count <= NO_OF_POSITION_SAMPLES /\ level = 0

\* Condition of lines 133..134 with the completed count and the press line
\* level (read only when the count is complete).
ValidationPasses(count, level) ==
  count = NO_OF_POSITION_SAMPLES /\ level = 0

\* raw = calculating: a uint32_t stored in a uint16_t keeps the low half.
Low16(a) == a[2]

\* Variant of Negate16 for a raw value declared as a signed int.
Negate16_Signed(raw) == 0 - raw

\* raw *= -1 on a uint16_t.
Negate16(raw) == (0 - raw) % U16

\* Variant of TransformX with the sign of the offset flipped.
TransformX_OffsetAdded(raw) ==
  (((240 - (raw \div X_TRANSLATION)) + X_OFFSET) * X_MAGNITUDE) % U16

\* Line 146, stored in a uint16_t.
TransformX(raw) ==
  (((240 - (raw \div X_TRANSLATION)) - X_OFFSET) * X_MAGNITUDE) % U16

\* Line 147, stored in a uint16_t.
TransformY(raw) ==
  (((raw \div Y_TRANSLATION) - Y_OFFSET) * Y_MAGNITUDE) % U16

\* The caller enters TP_Read_Coordinates with its output array.  The values
\* returned by earlier operations have been consumed.
CallReadCoordinates ==
  /\ pc = "idle"
  /\ pc' = "L103"
  /\ lastOp' = "TP_Read_Coordinates"
  /\ entryCoords' = Coordinates
  /\ entryPins' = <<>>
  /\ sameCtrl' = (ret = TOUCHPAD_DATA_OK)
  /\ prevLog' = IF ret = TOUCHPAD_DATA_OK THEN log ELSE <<>>
  /\ log' = <<>>
  /\ irqReads' = 0 /\ firstCheck' = NotRead /\ loopReadHigh' = FALSE
  /\ valRead' = NotRead
  /\ csAtVal' = NotRead
  /\ irqHighSeen' = FALSE /\ irqHighHeld' = (irq = 1)
  /\ cmdWrites' = 0 /\ respReads' = 0 /\ clkRises' = 0 /\ clkFalls' = 0
  /\ trace' = <<>> /\ latched' = <<>>
  /\ ret' = "none" /\ pressed' = TOUCHPAD_NOT_PRESSED /\ pressRead' = NotRead
  /\ UNCHANGED <<outs, ins, cfg, axis, xfer, accs, Coordinates, shreg>>

\* Line 103.
RC_ClkHigh ==
  /\ pc = "L103"
  /\ WriteClk(GPIO_PIN_SET)
  /\ pc' = "L104"
  /\ UNCHANGED <<mosi, cs, ins, cfg, axis, xfer, accs, res, ctrl, entry,
                 reads, flags, counts>>

\* Line 104.
RC_MosiHigh ==
  /\ pc = "L104"
  /\ mosi' = GPIO_PIN_SET
  /\ Access("MOSI", GPIO_PIN_SET)
  /\ pc' = "L105"
  /\ UNCHANGED <<clk, cs, ins, cfg, axis, xfer, accs, res, ctrl, entry,
                 reads, flags, counts, edges>>

\* Line 105.
RC_CsHigh ==
  /\ pc = "L105"
  /\ cs' = GPIO_PIN_SET
  /\ Access("CS", GPIO_PIN_SET)
  /\ pc' = "L107"
  /\ UNCHANGED <<clk, mosi, ins, cfg, axis, xfer, accs, res, ctrl, entry,
                 reads, flags, counts, edges>>

\* Variant of RC_InitLocals whose sums survive from call to call, as static
\* locals would.
RC_InitLocals_KeepsSums ==
  /\ pc = "L107"
  /\ avg_x' = Zero32 /\ avg_y' = Zero32
  /\ rawx' = 0 /\ rawy' = 0
  /\ samples' = NO_OF_POSITION_SAMPLES
  /\ counted_samples' = 0
  /\ pc' = "L114"
  /\ UNCHANGED <<outs, ins, cfg, axis, xfer, calculating_x, calculating_y,
                 res, ctrl, entry, reads, flags, counts, edges, trace>>

\* Lines 107..112: the locals.
RC_InitLocals ==
  /\ pc = "L107"
  /\ avg_x' = Zero32 /\ avg_y' = Zero32
  /\ rawx' = 0 /\ rawy' = 0
  /\ calculating_x' = Zero32 /\ calculating_y' = Zero32
  /\ samples' = NO_OF_POSITION_SAMPLES
  /\ counted_samples' = 0
  /\ pc' = "L114"
  /\ UNCHANGED <<outs, ins, cfg, axis, xfer, res, ctrl, entry, reads, flags,
                 counts, edges, trace>>

\* Line 114: the controller is selected.
RC_CsLow ==
  /\ pc = "L114"
  /\ cs' = GPIO_PIN_RESET
  /\ Access("CS", GPIO_PIN_RESET)
  /\ clkRises' = 0 /\ clkFalls' = 0 /\ latched' = <<>>
  /\ pc' = "L116"
  /\ UNCHANGED <<clk, mosi, ins, cfg, axis, xfer, accs, res, ctrl, entry,
                 reads, flags, counts>>

\* Line 116: the loop test.  The press line is read only if samples > 0.
RC_LoopTest ==
  /\ pc = "L116"
  /\ IF samples > 0
     THEN /\ irqReads' = irqReads + 1
          /\ firstCheck' = IF firstCheck = NotRead THEN irq ELSE firstCheck
          /\ loopReadHigh' = (loopReadHigh \/ irq = 1)
          /\ irqHighSeen' = (irqHighSeen \/ irq = 1)
          /\ Access("IRQ", irq)
     ELSE UNCHANGED <<irqReads, firstCheck, loopReadHigh, irqHighSeen, trace>>
  /\ pc' = IF LoopContinues(samples, irq) THEN "L117" ELSE "L131"
  /\ UNCHANGED <<outs, ins, cfg, axis, xfer, accs, res, ctrl, entry, valRead,
                 csAtVal, pressRead, irqHighHeld, counts, edges>>

\* Line 117: TP_Write(CMD_RDY).
RC_WriteY ==
  /\ pc = "L117"
  /\ axis' = "Y"
  /\ EnterWrite(CMD_RDY)
  /\ UNCHANGED <<outs, ins, cfg, value, accs, res, ctrl, entry, reads, flags,
                 respReads, edges>>

\* Line 118: rawy = TP_Read(), the call.
RC_ReadY ==
  /\ pc = "L118"
  /\ EnterRead
  /\ UNCHANGED <<outs, ins, cfg, axis, wvalue, accs, res, entry, reads,
                 flags, cmdWrites, edges>>

\* Lines 118..120: the value returned is summed.
RC_SumY ==
  /\ pc = "L119"
  /\ rawy' = value
  /\ avg_y' = Accumulate(avg_y, rawy')
  /\ calculating_y' = Accumulate(calculating_y, rawy')
  /\ pc' = "L122"
  /\ UNCHANGED <<outs, ins, cfg, axis, xfer, avg_x, rawx, calculating_x,
                 samples, counted_samples, res, ctrl, entry, reads, flags,
                 counts, edges, trace>>

\* Line 122: TP_Write(CMD_RDX).
RC_WriteX ==
  /\ pc = "L122"
  /\ axis' = "X"
  /\ EnterWrite(CMD_RDX)
  /\ UNCHANGED <<outs, ins, cfg, value, accs, res, ctrl, entry, reads, flags,
                 respReads, edges>>

\* Line 123: rawx = TP_Read(), the call.
RC_ReadX ==
  /\ pc = "L123"
  /\ EnterRead
  /\ UNCHANGED <<outs, ins, cfg, axis, wvalue, accs, res, entry, reads,
                 flags, cmdWrites, edges>>

\* Variant of RC_SumX that counts the cycle without taking it from the
\* budget.
RC_SumX_BudgetKept ==
  /\ pc = "L124"
  /\ rawx' = value
  /\ avg_x' = Accumulate(avg_x, rawx')
  /\ calculating_x' = Accumulate(calculating_x, rawx')
  /\ counted_samples' = counted_samples + 1
  /\ pc' = "L116"
  /\ UNCHANGED <<outs, ins, cfg, axis, xfer, avg_y, rawy, calculating_y,
                 samples, res, ctrl, entry, reads, flags, counts, edges,
                 trace>>

\* Lines 123..128: the value returned is summed and the cycle is counted.
\* The two uint32_t counters stay within 0..NO_OF_POSITION_SAMPLES, so
\* they are kept as plain numbers.
RC_SumX ==
  /\ pc = "L124"
  /\ rawx' = value
  /\ avg_x' = Accumulate(avg_x, rawx')
  /\ calculating_x' = Accumulate(calculating_x, rawx')
  /\ samples' = samples - 1
  /\ counted_samples' = counted_samples + 1
  /\ pc' = "L116"
  /\ UNCHANGED <<outs, ins, cfg, axis, xfer, avg_y, rawy, calculating_y,
                 res, ctrl, entry, reads, flags, counts, edges, trace>>

\* Variant of RC_CsRelease that leaves chip-select as it is.
RC_CsRelease_Missing ==
  /\ pc = "L131"
  /\ pc' = "L133"
  /\ UNCHANGED <<outs, ins, cfg, axis, xfer, accs, res, ctrl, entry, reads,
                 flags, counts, edges, trace>>

\* Line 131: the controller is released.
RC_CsRelease ==
  /\ pc = "L131"
  /\ cs' = GPIO_PIN_SET
  /\ Access("CS", GPIO_PIN_SET)
  /\ pc' = "L133"
  /\ UNCHANGED <<clk, mosi, ins, cfg, axis, xfer, accs, res, ctrl, entry,
                 reads, flags, counts, edges>>

\* Lines 133..134.  The press line is read only if the count is complete.
RC_Validate ==
  /\ pc = "L133"
  /\ IF counted_samples = NO_OF_POSITION_SAMPLES
     THEN /\ irqReads' = irqReads + 1
          /\ valRead' = irq
          /\ csAtVal' = cs
          /\ Access("IRQ", irq)
     ELSE UNCHANGED <<irqReads, valRead, csAtVal, trace>>
  /\ pc' = IF ValidationPasses(counted_samples, irq) THEN "L136" ELSE "L151"
  /\ UNCHANGED <<outs, ins, cfg, axis, xfer, accs, res, ctrl, entry,
                 firstCheck, loopReadHigh, pressRead, flags, counts, edges>>

\* Lines 136..149.  A zero divisor leaves the quotient undetermined.
RC_Success ==
  /\ pc = "L136"
  /\ IF counted_samples = 0
     THEN /\ calculating_x' \in {Zero32, <<0, 1>>}
          /\ calculating_y' \in {Zero32, <<0, 1>>}
     ELSE /\ calculating_x' = Divide32(calculating_x, counted_samples)
          /\ calculating_y' = Divide32(calculating_y, counted_samples)
  /\ rawx' = Negate16(Low16(calculating_x'))
  /\ rawy' = Negate16(Low16(calculating_y'))
  /\ Coordinates' = <<TransformX(rawx'), TransformY(rawy')>>
  /\ ret' = TOUCHPAD_DATA_OK
  /\ pc' = "idle"
  /\ UNCHANGED <<outs, ins, cfg, axis, xfer, avg_x, avg_y, samples,
                 counted_samples, pressed, ctrl, entry, reads, flags, counts,
                 edges, trace>>

\* Variant of RC_Failure that leaves the output array as it was.
RC_Failure_KeepsOutput ==
  /\ pc = "L151"
  /\ ret' = TOUCHPAD_DATA_NOISY
  /\ pc' = "idle"
  /\ UNCHANGED <<outs, ins, cfg, axis, xfer, accs, Coordinates, pressed,
                 ctrl, entry, reads, flags, counts, edges, trace>>

\* Lines 150..153.
RC_Failure ==
  /\ pc = "L151"
  /\ Coordinates' = <<0, 0>>
  /\ ret' = TOUCHPAD_DATA_NOISY
  /\ pc' = "idle"
  /\ UNCHANGED <<outs, ins, cfg, axis, xfer, accs, pressed, ctrl, entry,
                 reads, flags, counts, edges, trace>>

\* ---------------------------------------------------------- specification

\* One step of the driver.
Prog ==
  \/ TP_Touchpad_Pressed
  \/ RC_ClkHigh \/ RC_MosiHigh \/ RC_CsHigh \/ RC_InitLocals \/ RC_CsLow
  \/ RC_LoopTest
  \/ RC_WriteY \/ RC_ReadY \/ RC_SumY \/ RC_WriteX \/ RC_ReadX \/ RC_SumX
  \/ TP_Write_ClkLow \/ TP_Write_Data \/ TP_Write_ClkHigh \/ TP_Write_ClkFall
  \/ TP_Read_ClkHigh \/ TP_Read_ClkFall \/ TP_Read_Sample
  \/ RC_CsRelease \/ RC_Validate \/ RC_Success \/ RC_Failure

\* The caller starts an operation.
Call == CallTouchpadPressed \/ CallReadCoordinates

Next == Call \/ Prog \/ EnvIrq

Spec == Init /\ [][Next]_vars

\* The processor keeps executing the operation it is in.
FairSpec == Spec /\ WF_vars(Prog)

\* ------------------------------------------------ the sums over long runs

\* k * r for k < 2^17 and r < 2^16 as a pair of a high part and a 16-bit
\* low half; the product fits a uint32_t when the high part is below 2^16.
Product(k, r) ==
  LET a == k * (r \div U8)
      lo == ((a % U8) * U8) + (k * (r % U8))
  IN  <<(a \div U8) + (lo \div U16), lo % U16>>

\* Cycles already completed where a long run is taken up: none, or all but
\* the last few.
Checkpoints == {0, MaxBudget - 8}

\* A call with a large sample count at a loop test, the press line held low
\* and the controller repeating one conversion result (kept in shreg): the
\* first loop test, or the loop test reached after k such cycles.  A
\* TP_Write and the TP_Read after it are one step: their pin traffic is left
\* out, their effect on the locals is kept.
SumInit ==
  \E k \in Checkpoints :
    /\ cs = GPIO_PIN_RESET
    /\ clk = (IF k = 0 THEN GPIO_PIN_SET ELSE GPIO_PIN_RESET)
    /\ mosi = (IF k = 0 THEN GPIO_PIN_SET ELSE GPIO_PIN_RESET)
    /\ irq = 0 /\ miso = 0
    /\ NO_OF_POSITION_SAMPLES \in {MaxBudget - 1, MaxBudget}
    /\ cal = CHOOSE c \in Calibrations : c.xt = 1
    /\ shreg \in WorstResponses
    /\ pc = "L116" /\ axis = (IF k = 0 THEN "Y" ELSE "X")
    /\ i = 0 /\ wvalue = 0
    /\ value = (IF k = 0 THEN 0 ELSE shreg)
    /\ rawx = value /\ rawy = value
    /\ avg_x = Product(k, shreg) /\ avg_y = Product(k, shreg)
    /\ calculating_x = avg_x /\ calculating_y = avg_y
    /\ samples = NO_OF_POSITION_SAMPLES - k /\ counted_samples = k
    /\ Coordinates = <<0, 0>>
    /\ ret = "none" /\ pressed = TOUCHPAD_NOT_PRESSED
    /\ lastOp = "TP_Read_Coordinates" /\ log = <<>>
    /\ entryCoords = <<0, 0>> /\ entryPins = <<>>
    /\ sameCtrl = FALSE /\ prevLog = <<>>
    /\ irqReads = k /\ firstCheck = (IF k = 0 THEN NotRead ELSE 0)
    /\ loopReadHigh = FALSE
    /\ valRead = NotRead /\ csAtVal = NotRead /\ pressRead = NotRead
    /\ irqHighSeen = FALSE /\ irqHighHeld = FALSE
    /\ cmdWrites = 2 * k /\ respReads = 2 * k
    /\ clkRises = 0 /\ clkFalls = 0
    /\ trace = <<>> /\ latched = <<>>

\* Lines 117..120 in one step: TP_Write(CMD_RDY), rawy = TP_Read(), the
\* two sums of Y.
RC_SampleY ==
  /\ pc = "L117"
  /\ axis' = "Y"
  /\ clk' = GPIO_PIN_RESET /\ mosi' = GPIO_PIN_RESET
  /\ value' = shreg
  /\ rawy' = value'
  /\ avg_y' = Accumulate(avg_y, rawy')
  /\ calculating_y' = Accumulate(calculating_y, rawy')
  /\ cmdWrites' = cmdWrites + 1 /\ respReads' = respReads + 1
  /\ trace' = <<>>
  /\ pc' = "L122"
  /\ UNCHANGED <<cs, ins, cfg, i, wvalue, avg_x, rawx, calculating_x,
                 samples, counted_samples, res, ctrl, entry, reads, flags,
                 edges>>

\* Lines 122..128 in one step: TP_Write(CMD_RDX), rawx = TP_Read(), the
\* two sums of X, the counters.
RC_SampleX ==
  /\ pc = "L122"
  /\ axis' = "X"
  /\ value' = shreg
  /\ rawx' = value'
  /\ avg_x' = Accumulate(avg_x, rawx')
  /\ calculating_x' = Accumulate(calculating_x, rawx')
  /\ samples' = samples - 1
  /\ counted_samples' = counted_samples + 1
  /\ cmdWrites' = cmdWrites + 1 /\ respReads' = respReads + 1
  /\ trace' = <<>>
  /\ pc' = "L116"
  /\ UNCHANGED <<outs, ins, cfg, i, wvalue, avg_y, rawy, calculating_y,
                 res, ctrl, entry, reads, flags, edges>>

SumNext ==
  \/ RC_LoopTest \/ RC_SampleY \/ RC_SampleX
  \/ RC_CsRelease \/ RC_Validate \/ RC_Success

SumSpec == SumInit /\ [][SumNext]_vars

\* ------------------------------------------------------------ properties

\* TP_Read_Coordinates has returned and no other operation has started.
Returned == pc = "idle" /\ lastOp = "TP_Read_Coordinates"

\* TP_Touchpad_Pressed has returned and no other operation has started.
PressedReturned == pc = "idle" /\ lastOp = "TP_Touchpad_Pressed"

\* Sum of the responses k, k+2, k+4, ... of a response log: the log holds
\* the Y response of a cycle at an odd place and its X response after it.
RECURSIVE SumFrom(_, _)
SumFrom(seq, k) ==
  IF k > Len(seq) THEN 0 ELSE seq[k] + SumFrom(seq, k + 2)

\* The controller answered every read-Y of the call with the same value and
\* every read-X with the same value.
ConstantResponses ==
  /\ Len(log) >= 2
  /\ \A k \in 1..Len(log) : log[k] = IF k % 2 = 1 THEN log[1] ELSE log[2]

\* C1: TP_Read_Coordinates returns Ok exactly when the completed count
\* equals the configured sample count and the press line read low at the
\* validation read, which is made with chip-select already released.
C1_OkIffFullCountAndPressedAtValidation ==
  Returned =>
    /\ (ret = TOUCHPAD_DATA_OK) <=>
         (counted_samples = NO_OF_POSITION_SAMPLES /\ valRead = 0)
    /\ ret \in {TOUCHPAD_DATA_OK, TOUCHPAD_DATA_NOISY}
    /\ valRead # NotRead => csAtVal = 1

\* C1 witness: every loop test read low, all cycles completed, and the
\* validation read found the press line high: the call returned Noisy.
C1_Witness ==
  /\ Returned
  /\ ~loopReadHigh
  /\ counted_samples = NO_OF_POSITION_SAMPLES
  /\ valRead = 1
  /\ ret = TOUCHPAD_DATA_NOISY

\* C2: whenever TP_Read_Coordinates returns Noisy both output coordinates
\* are 0.
C2_NoisyGivesZeroPair ==
  (Returned /\ ret = TOUCHPAD_DATA_NOISY) => Coordinates = <<0, 0>>

\* C2 witness: a Noisy return after raw values were summed, into an array
\* that held non-zero values before the call.
C2_Witness ==
  /\ Returned
  /\ ret = TOUCHPAD_DATA_NOISY
  /\ counted_samples >= 1
  /\ avg_x # Zero32 /\ avg_y # Zero32
  /\ entryCoords # <<0, 0>>
  /\ Coordinates = <<0, 0>>

\* C3: when every read of the press line was low and the controller gave
\* the same R_y and R_x on every response, the call returns Ok with
\* x = ((240 - Rn_x / x_translation) - x_offset) * x_magnitude and
\* y = ((Rn_y / y_translation) - y_offset) * y_magnitude, Rn the 16-bit
\* negation of R, the results kept modulo 2^16.
C3_ConstantRawGivesTransform ==
  (Returned /\ ~loopReadHigh /\ valRead # 1 /\ ConstantResponses) =>
    LET Rn_y == (65536 - log[1]) % 65536
        Rn_x == (65536 - log[2]) % 65536
    IN  /\ ret = TOUCHPAD_DATA_OK
        /\ Coordinates[1] =
             (((240 - (Rn_x \div cal.xt)) - cal.xo) * cal.xm) % 65536
        /\ Coordinates[2] =
             (((Rn_y \div cal.yt) - cal.yo) * cal.ym) % 65536

\* C3 witness: an Ok return after two cycles of constant responses with
\* different values on the two axes.
C3_Witness ==
  /\ Returned
  /\ ret = TOUCHPAD_DATA_OK
  /\ ~loopReadHigh /\ valRead = 0
  /\ ConstantResponses
  /\ Len(log) = 4
  /\ log[1] # log[2]

\* C4: when the press line went high before the configured number of cycles
\* had completed and stayed high until the return, the call returns Noisy
\* with coordinates (0, 0).
C4_EarlyReleaseGivesNoisyZero ==
  (Returned /\ irqHighHeld) =>
    (ret = TOUCHPAD_DATA_NOISY /\ Coordinates = <<0, 0>>)

\* C4 witness: the press line went high in the middle of the last cycle, so
\* that all cycles completed, and stayed high.
C4_Witness ==
  /\ Returned
  /\ irqHighHeld
  /\ ~loopReadHigh
  /\ counted_samples = NO_OF_POSITION_SAMPLES
  /\ ret = TOUCHPAD_DATA_NOISY

\* C5 as stated: a press line that was high at any moment between the first
\* loop test and the end of the last sample cycle leaves fewer than the
\* configured number of cycles completed and a result other than Ok.
C5_AnyLossTruncates ==
  (Returned /\ irqHighSeen) =>
    (counted_samples < NO_OF_POSITION_SAMPLES /\ ret # TOUCHPAD_DATA_OK)

\* C5 amended: a press line that reads high at a loop test leaves fewer
\* than the configured number of cycles completed and the result Noisy.
C5_LossSeenByLoopTestTruncates ==
  (Returned /\ loopReadHigh) =>
    (counted_samples < NO_OF_POSITION_SAMPLES /\ ret = TOUCHPAD_DATA_NOISY)

\* C5 witness: a loop test read the press line high after a cycle had
\* completed.
C5_Witness ==
  /\ Returned
  /\ loopReadHigh
  /\ counted_samples >= 1
  /\ counted_samples < NO_OF_POSITION_SAMPLES

\* C6: TP_Touchpad_Pressed returns pressed exactly when the press line read
\* low, reads the press line exactly once, and leaves chip-select, clock
\* and data-out as they were.
C6_PressedIffLowAndPinsUntouched ==
  PressedReturned =>
    /\ pressRead \in {0, 1}
    /\ (pressed = TOUCHPAD_PRESSED) <=> (pressRead = 0)
    /\ pressed \in {TOUCHPAD_PRESSED, TOUCHPAD_NOT_PRESSED}
    /\ irqReads = 1
    /\ <<clk, mosi, cs>> = entryPins

\* C6 witness: TP_Touchpad_Pressed returned pressed.
C6_Witness ==
  /\ PressedReturned
  /\ pressRead = 0
  /\ pressed = TOUCHPAD_PRESSED

\* C7: on an Ok return the average of each axis is the sum of that axis's
\* responses divided by the configured sample count, rounded down.
C7_AverageTruncates ==
  (Returned /\ ret = TOUCHPAD_DATA_OK) =>
    /\ Len(log) = 2 * NO_OF_POSITION_SAMPLES
    /\ calculating_y = <<0, SumFrom(log, 1) \div NO_OF_POSITION_SAMPLES>>
    /\ calculating_x = <<0, SumFrom(log, 2) \div NO_OF_POSITION_SAMPLES>>

\* C7 witness: X responses 65534 and 65535 with a sample count of 2
\* averaged to 65534.
C7_Witness ==
  /\ Returned
  /\ ret = TOUCHPAD_DATA_OK
  /\ NO_OF_POSITION_SAMPLES = 2
  /\ Len(log) = 4
  /\ log[2] = 65534 /\ log[4] = 65535
  /\ calculating_x = <<0, 65534>>

\* C8: an Ok call that follows an Ok call and got the same responses leaves
\* the coordinates the previous call left in the output array.
C8_SameResponsesSameCoordinates ==
  (Returned /\ ret = TOUCHPAD_DATA_OK /\ sameCtrl) =>
    Coordinates = entryCoords

\* C8 witness: two Ok calls in a row with the same responses, the samples
\* of an axis differing within the call.
C8_Witness ==
  /\ Returned
  /\ ret = TOUCHPAD_DATA_OK
  /\ sameCtrl
  /\ Len(log) = 4
  /\ prevLog = log
  /\ log[1] # log[3]

\* C9: a call of TP_Read_Coordinates always returns; it never runs more
\* than the configured number of cycles, and when it returns it has made
\* two command writes and two response reads per completed cycle, 48 clock
\* pulses in all per cycle, and reports Ok or Noisy.
C9_Terminates ==
  /\ InRC ~> Returned
  /\ [](InRC => /\ counted_samples <= NO_OF_POSITION_SAMPLES
                /\ cmdWrites <= 2 * NO_OF_POSITION_SAMPLES
                /\ respReads <= 2 * NO_OF_POSITION_SAMPLES)
  /\ [](Returned => /\ cmdWrites = 2 * counted_samples
                    /\ respReads = 2 * counted_samples
                    /\ clkRises = 48 * counted_samples
                    /\ ret \in {TOUCHPAD_DATA_OK, TOUCHPAD_DATA_NOISY})

\* C9 witness: a call returned after running the full number of cycles.
C9_Witness ==
  /\ Returned
  /\ counted_samples = NO_OF_POSITION_SAMPLES
  /\ NO_OF_POSITION_SAMPLES = MaxSamples
  /\ cmdWrites = 2 * MaxSamples

\* C10: when the first loop test reads the press line high, no cycle
\* completes, no command is written, no response is read, the clock makes
\* no edge while chip-select is low, and the call returns Noisy with
\* coordinates (0, 0).
C10_NeverPressedDoesNothing ==
  (lastOp = "TP_Read_Coordinates" /\ firstCheck = 1) =>
    /\ counted_samples = 0
    /\ cmdWrites = 0 /\ respReads = 0
    /\ clkRises = 0 /\ clkFalls = 0
    /\ log = <<>>
    /\ pc = "idle" => (ret = TOUCHPAD_DATA_NOISY /\ Coordinates = <<0, 0>>)

\* C10 witness: a call whose first loop test read high returned, the output
\* array holding non-zero values before it.
C10_Witness ==
  /\ Returned
  /\ firstCheck = 1
  /\ entryCoords # <<0, 0>>
  /\ ret = TOUCHPAD_DATA_NOISY

\* ------------------------------------------------- TP_Write and TP_Read

\* Labels of TP_Write and the labels it returns to.
WriteLabels == {"W84", "W87", "W94", "W95"}
WriteReturned == pc \in {"L118", "L123"}

\* The command byte of the TP_Write under way or just returned.
Command == IF axis = "Y" THEN CMD_RDY ELSE CMD_RDX

\* Data-out set to bit k, clock high, clock low, for k down to bit 0.
RECURSIVE BitPulses(_, _)
BitPulses(byte, k) ==
  IF k < 0
  THEN <<>>
  ELSE <<<<"MOSI", Bit(byte, k)>>, <<"CLK", 1>>, <<"CLK", 0>>>>
         \o BitPulses(byte, k - 1)

\* The pin accesses of a whole TP_Write(byte).
WriteAccesses(byte) == <<<<"CLK", 0>>>> \o BitPulses(byte, 7)

\* Clock pulses in a sequence of accesses: the clock is written high and
\* the next access writes it low.
Pulses(seq) ==
  Cardinality({k \in 1..(Len(seq) - 1) :
                 seq[k] = <<"CLK", 1>> /\ seq[k + 1] = <<"CLK", 0>>})

\* seq is the beginning of full.
IsPrefix(seq, full) ==
  Len(seq) <= Len(full) /\ seq = SubSeq(full, 1, Len(seq))

\* C11: TP_Write first writes the clock low, then for each of the 8 bits
\* of the byte, most significant first, writes data-out to the bit, the
\* clock high and the clock low, and nothing else: when it returns it has
\* made exactly 8 clock pulses with no data-out write inside a pulse, the
\* clock is low, no input line was read and chip-select is still low.
C11_WriteCommandPulses ==
  /\ pc \in WriteLabels =>
       /\ IsPrefix(trace, WriteAccesses(Command))
       /\ cs = GPIO_PIN_RESET
  /\ WriteReturned =>
       /\ trace = WriteAccesses(Command)
       /\ Pulses(trace) = 8
       /\ \A k \in 1..Len(trace) : trace[k][1] \in {"CLK", "MOSI"}
       /\ clk = GPIO_PIN_RESET
       /\ cs = GPIO_PIN_RESET

\* C11 witness: TP_Write(CMD_RDX) returned after sending 1, 1, 0, 1 and
\* four more bits.
C11_Witness ==
  /\ pc = "L123"
  /\ Len(trace) = 25
  /\ trace[2] = <<"MOSI", 1>> /\ trace[5] = <<"MOSI", 1>>
  /\ trace[8] = <<"MOSI", 0>> /\ trace[11] = <<"MOSI", 1>>
  /\ trace[25] = <<"CLK", 0>>

\* TP_Read has returned to its caller.
ReadReturned == pc \in {"L119", "L124"}

\* C12: when TP_Read returns it has made exactly 16 clock pulses, each
\* followed by one read of data-in and nothing else, and bit 15 - n of the
\* value it returns is 1 exactly when the n-th read (n = 0..15) found
\* data-in high; the value is a 16-bit number.
C12_ReadAssemblesMsbFirst ==
  ReadReturned =>
    /\ Len(trace) = 48
    /\ Pulses(trace) = 16
    /\ value \in 0..65535
    /\ \A n \in 0..15 :
         /\ trace[3 * n + 1] = <<"CLK", 1>>
         /\ trace[3 * n + 2] = <<"CLK", 0>>
         /\ trace[3 * n + 3][1] = "MISO"
         /\ (Bit(value, 15 - n) = 1) <=> (trace[3 * n + 3][2] # 0)

\* C12 witness: TP_Read returned 65534 for X: data-in was high at the first
\* read, which ends in bit 15, and low at the last.
C12_Witness ==
  /\ pc = "L124"
  /\ trace[3] = <<"MISO", 1>>
  /\ trace[48] = <<"MISO", 0>>
  /\ value = 65534

\* ------------------------------------------------------ the sample cycle

ReadLabels == {"R65", "R68", "R70"}

\* A number below 2^31 as a uint32_t.
ToPair(n) == <<n \div U16, n % U16>>

\* Sums of the first k Y responses and of the first k X responses logged.
YSum(k) == SumFrom(SubSeq(log, 1, 2 * k - 1), 1)
XSum(k) == SumFrom(SubSeq(log, 1, 2 * k), 2)

\* Inside a cycle, after w command writes and r response reads of the
\* cycle, the Y sum holding y samples of the cycle: the counters are those
\* of the loop test that began the cycle, which is the only read of the
\* press line made so far for the cycle.
CycleAt(w, r, y) ==
  /\ cmdWrites = 2 * counted_samples + w
  /\ respReads = 2 * counted_samples + r
  /\ Len(log) = 2 * counted_samples + r
  /\ calculating_y = ToPair(YSum(counted_samples + y))
  /\ calculating_x = ToPair(XSum(counted_samples))
  /\ samples = NO_OF_POSITION_SAMPLES - counted_samples
  /\ irqReads = counted_samples + 1

\* C13: a cycle runs TP_Write(CMD_RDY), one TP_Read added to the Y sum,
\* TP_Write(CMD_RDX), one TP_Read added to the X sum, and then the two
\* counters; the press line is read once per cycle, before the first
\* write.  At the loop test and after the loop no cycle is left unfinished:
\* two writes and two reads were made per completed cycle and each sum
\* holds one response per completed cycle.
C13_CycleOrder ==
  /\ pc = "L117" => CycleAt(0, 0, 0) /\ trace[Len(trace)] = <<"IRQ", 0>>
  /\ (pc \in WriteLabels \cup {"L118"} /\ axis = "Y") => CycleAt(1, 0, 0)
  /\ pc = "L118" => axis = "Y" /\ trace = WriteAccesses(CMD_RDY)
  /\ (pc \in ReadLabels \cup {"L119"} /\ axis = "Y") => CycleAt(1, 1, 0)
  /\ pc = "L122" => CycleAt(1, 1, 1)
  /\ (pc \in WriteLabels \cup {"L123"} /\ axis = "X") => CycleAt(2, 1, 1)
  /\ pc = "L123" => axis = "X" /\ trace = WriteAccesses(CMD_RDX)
  /\ (pc \in ReadLabels \cup {"L124"} /\ axis = "X") => CycleAt(2, 2, 1)
  /\ pc \in {"L116", "L131", "L133", "L136", "L151"} =>
       /\ cmdWrites = 2 * counted_samples
       /\ respReads = 2 * counted_samples
       /\ Len(log) = 2 * counted_samples
       /\ calculating_y = ToPair(YSum(counted_samples))
       /\ calculating_x = ToPair(XSum(counted_samples))
       /\ samples = NO_OF_POSITION_SAMPLES - counted_samples
  /\ Returned =>
       /\ cmdWrites = 2 * counted_samples
       /\ respReads = 2 * counted_samples
       /\ Len(log) = 2 * counted_samples
       /\ avg_y = ToPair(YSum(counted_samples))
       /\ avg_x = ToPair(XSum(counted_samples))

\* C13 witness: with a sample count of 1 the press line was high during
\* the cycle, no loop test saw it, and the cycle was completed.
C13_Witness ==
  /\ Returned
  /\ NO_OF_POSITION_SAMPLES = 1
  /\ irqHighSeen /\ ~loopReadHigh
  /\ counted_samples = 1
  /\ Len(log) = 2

\* ----------------------------------------------------------- chip-select

\* The accesses of lines 103..114.
Arming ==
  <<<<"CLK", 1>>, <<"MOSI", 1>>, <<"CS", 1>>, <<"CS", 0>>>>

\* C14: before the first command data-out has been written high and
\* chip-select high and then low; chip-select is low at every step of
\* every TP_Write and TP_Read and throughout the loop; it is written high
\* before the validation read of the press line and is high when the call
\* returns, Ok or Noisy.
C14_ChipSelectFrames ==
  /\ pc \in {"L107", "L114"} => cs = GPIO_PIN_SET /\ mosi = GPIO_PIN_SET
  /\ (pc = "L116" /\ counted_samples = 0) => trace = Arming
  /\ (pc = "L117" /\ cmdWrites = 0) =>
       /\ trace = Arming \o <<<<"IRQ", 0>>>>
       /\ mosi = GPIO_PIN_SET
  /\ pc \in LoopBody \cup {"L116", "L131"} => cs = GPIO_PIN_RESET
  /\ pc = "L133" => trace[Len(trace)] = <<"CS", 1>>
  /\ pc \in {"L133", "L136", "L151"} => cs = GPIO_PIN_SET
  /\ (lastOp = "TP_Read_Coordinates" /\ valRead # NotRead) => csAtVal = 1
  /\ Returned =>
       /\ cs = GPIO_PIN_SET
       /\ ret \in {TOUCHPAD_DATA_OK, TOUCHPAD_DATA_NOISY}

\* C14 witness: a call that ran all its cycles returned Noisy with
\* chip-select high, the validation read made with chip-select high.
C14_Witness ==
  /\ Returned
  /\ ret = TOUCHPAD_DATA_NOISY
  /\ cmdWrites = 2 * NO_OF_POSITION_SAMPLES
  /\ csAtVal = 1
  /\ cs = GPIO_PIN_SET

\* ------------------------------------------------------------ the counters

\* The locals of TP_Read_Coordinates are initialised.
LocalsLive == pc \in RCLabels \ {"L103", "L104", "L105", "L107"}

C16_NegationWraps ==
  (Returned /\ ret = TOUCHPAD_DATA_OK) =>
    LET Ax == calculating_x[2]
        Ay == calculating_y[2]
    IN  /\ rawx = (65536 - Ax) % 65536
        /\ rawy = (65536 - Ay) % 65536
        /\ rawx \in 0..65535 /\ rawy \in 0..65535
        /\ Ax = 0 => rawx = 0
        /\ Ay = 0 => rawy = 0
        /\ Ax >= 1 => rawx = 65536 - Ax
        /\ Ay >= 1 => rawy = 65536 - Ay

\* C16 witness: an Ok return with the Y average 0, negated to 0, and the X
\* average 65535, negated to 1.
C16_Witness ==
  /\ Returned
  /\ ret = TOUCHPAD_DATA_OK
  /\ calculating_y = <<0, 0>> /\ rawy = 0
  /\ calculating_x = <<0, 65535>> /\ rawx = 1

\* ------------------------------------------------------ falling clock edges

\* The bits of a command byte, most significant first.
BitsOf(byte) == [k \in 1..CommandBits |-> Bit(byte, CommandBits - k)]

\* Chip-select has been written high again by the running or returned call.
Released == pc \in {"L133", "L136", "L151"} \/ Returned

\* C17: the falling clock edges made while chip-select was low number 48
\* per completed cycle, and the data-out levels at the first 8 of them are
\* the bits of CMD_RDY, most significant first.
C17_FallingEdgesOnlyInPulses ==
  /\ Released => clkFalls = 48 * counted_samples
  /\ Len(latched) = CommandBits => latched = BitsOf(CMD_RDY)

\* C17 witness: a call returned after one cycle in which the clock fell 49
\* times while chip-select was low, against 48 rising edges; the first
\* falling edge came with data-out still high from line 104, so that the
\* first 8 levels latched are 1 followed by the first 7 bits of CMD_RDY.
C17_Witness ==
  /\ Returned
  /\ counted_samples = 1
  /\ clkRises = 48
  /\ clkFalls = 49
  /\ latched = <<1>> \o SubSeq(BitsOf(CMD_RDY), 1, CommandBits - 1)

\* ------------------------------------------------------------ the division

\* C18: the division of lines 136..137 is reached only with the completed
\* count equal to the configured sample count, which is at least 1, so the
\* divisor is never 0; a call whose first loop test read the press line
\* high, or that completed no cycle, never reaches it.
C18_DivisorIsSampleCount ==
  /\ NO_OF_POSITION_SAMPLES >= 1
  /\ pc = "L136" =>
       /\ counted_samples = NO_OF_POSITION_SAMPLES
       /\ counted_samples # 0
  /\ (Returned /\ ret = TOUCHPAD_DATA_OK) =>
       counted_samples = NO_OF_POSITION_SAMPLES
  /\ (InRC /\ (firstCheck = 1 \/ (pc \in {"L131", "L133"}
                                   /\ counted_samples = 0))) =>
       pc # "L136"
  /\ (Returned /\ (firstCheck = 1 \/ counted_samples = 0)) =>
       ret = TOUCHPAD_DATA_NOISY

\* C18 witness: the division is about to run with the divisor equal to the
\* largest sample count explored.
C18_Witness ==
  /\ pc = "L136"
  /\ NO_OF_POSITION_SAMPLES = MaxSamples
  /\ counted_samples = MaxSamples
  /\ calculating_x # Zero32

\* ---------------------------------------------------------------- the sums

\* a <= b for such pairs.
PairLeq(a, b) == a[1] < b[1] \/ (a[1] = b[1] /\ a[2] <= b[2])

\* Responses added so far to the Y sum and to the X sum: the Y response of
\* a cycle is added before the cycle is counted.
YAdded == counted_samples + (IF pc = "L122" THEN 1 ELSE 0)
XAdded == counted_samples

\* The sums are still to be divided.
Summing == LocalsLive /\ pc # "idle"

\* C19 as stated: in every state of the call each running sum is at most
\* 65535 times the completed count, the sums do not wrap for a sample count
\* up to 65537, and the average of an Ok return is at most 65535.
C19_SumsWithinCompleted ==
  /\ Summing =>
       /\ PairLeq(calculating_y, Product(counted_samples, 65535))
       /\ PairLeq(calculating_x, Product(counted_samples, 65535))
  /\ (Summing /\ NO_OF_POSITION_SAMPLES <= 65537) =>
       /\ calculating_y = Product(YAdded, shreg)
       /\ calculating_x = Product(XAdded, shreg)
  /\ (Returned /\ ret = TOUCHPAD_DATA_OK
        /\ NO_OF_POSITION_SAMPLES <= 65537) =>
       /\ calculating_y[1] = 0 /\ calculating_x[1] = 0

\* C19 amended: each running sum is at most 65535 times the number of
\* responses added to it, which for the Y sum is one more than the completed
\* count from line 120 to line 128; while at most 65537 responses have been
\* added the 32-bit sum is the exact sum, and for a sample count up to
\* 65537 the average of an Ok return is the repeated response, at most
\* 65535 with a zero high half.
C19_SumsWithinAdded ==
  /\ (Summing /\ YAdded <= 65537) =>
       /\ PairLeq(calculating_y, Product(YAdded, 65535))
       /\ Product(YAdded, 65535)[1] < U16
       /\ calculating_y = Product(YAdded, shreg)
       /\ avg_y = calculating_y
  /\ (Summing /\ XAdded <= 65537) =>
       /\ PairLeq(calculating_x, Product(XAdded, 65535))
       /\ Product(XAdded, 65535)[1] < U16
       /\ calculating_x = Product(XAdded, shreg)
       /\ avg_x = calculating_x
  /\ pc = "L116" =>
       /\ YAdded = counted_samples
       /\ counted_samples + samples = NO_OF_POSITION_SAMPLES
  /\ (Returned /\ ret = TOUCHPAD_DATA_OK
        /\ NO_OF_POSITION_SAMPLES <= 65537) =>
       /\ avg_y = Product(NO_OF_POSITION_SAMPLES, shreg)
       /\ avg_x = Product(NO_OF_POSITION_SAMPLES, shreg)
       /\ calculating_y = <<0, shreg>>
       /\ calculating_x = <<0, shreg>>
       /\ rawy = Negate16(shreg) /\ rawx = Negate16(shreg)

\* C19 witness: an Ok call of 65537 cycles with every response 65535: the
\* sums reached 2^32 - 1, the largest 32-bit value, and the average is
\* 65535.
C19_Witness ==
  /\ Returned
  /\ ret = TOUCHPAD_DATA_OK
  /\ counted_samples = 65537
  /\ avg_x = <<65535, 65535>> /\ avg_y = <<65535, 65535>>
  /\ calculating_x = <<0, 65535>> /\ calculating_y = <<0, 65535>>

====
